---- MODULE Spec2Model ----
(***************************************************************************)
(* Model of gptfunction.GPTFunction: the adapter that wraps one callable,  *)
(* builds its function-calling schema from the callable's annotations and  *)
(* parsed docstring, and coerces the callable's result to a string.        *)
(*                                                                         *)
(* Python values are modelled as follows.                                  *)
(*   - a type object is a record [kind, args, members]: kind names the     *)
(*     class or typing construct, args is what typing.get_args yields for  *)
(*     it, members are the (name, value) members iterating an Enum class   *)
(*     yields;                                                             *)
(*   - a literal or member value is [t, v]: t its Python type, v its text; *)
(*   - an ordered dict is a sequence of [key, value] records in insertion  *)
(*     order; a dict whose order is never observed is a TLA+ record;       *)
(*   - a result of the wrapped callable is [t, s, n]: t its Python type,   *)
(*     s its characters when it is a str, n its number when it is an int.  *)
(***************************************************************************)
EXTENDS Integers, Sequences, FiniteSets, TLC

VARIABLES
    decl,          \* the def statement of the wrapped callable (never changes)
    func,          \* self.func: __name__, __doc__ (parsed), __annotations__
    last,          \* the operation that ran last
    schema_out,    \* outcome of the last schema() call
    records,       \* the _FunctionParam list the last schema() call built
    first_schema,  \* outcome of the first schema() call on this adapter
    repeated,      \* TRUE once schema() has been called more than once
    text_out,      \* value returned by the last name() / description()
    warnings,      \* logging.warning records emitted by the last operation
    call_in,       \* arguments passed to the last adapter invocation
    call_seen,     \* what the wrapped callable did in the last invocation
    call_out,      \* outcome of the last adapter invocation
    tm_in,         \* type handed to _parse_param_type called on its own
    tm_out         \* its outcome

vars == <<decl, func, last, schema_out, records, first_schema, repeated, text_out,
          warnings, call_in, call_seen, call_out, tm_in, tm_out>>

(***************************************************************************)
(* Bounds of the model.                                                    *)
(***************************************************************************)
MaxParams == 2
MaxDocs == 2
MaxEnum == 2
MaxInt == 12
MaxArgs == 2

(***************************************************************************)
(* Sequence helpers.                                                       *)
(***************************************************************************)
SeqsUpTo(S, n) == UNION {[1..k -> S] : k \in 0..n}

IsInjective(s) == \A i, j \in 1..Len(s) : s[i] = s[j] => i = j

RECURSIVE Reverse(_)
Reverse(s) == IF s = <<>> THEN <<>> ELSE Append(Reverse(Tail(s)), Head(s))

(***************************************************************************)
(* Type objects.                                                           *)
(***************************************************************************)
Class(k) == [kind |-> k, args |-> <<>>, members |-> <<>>]

str == Class("str")
int == Class("int")
float == Class("float")
bool == Class("bool")
dict == Class("dict")
list == Class("list")
NoneType == Class("NoneType")

StrVal(s) == [t |-> "str", v |-> s]
IntVal(s) == [t |-> "int", v |-> s]
TypeVal(tp) == [t |-> "type", v |-> tp.kind]

\* typing.Literal[vals...]
Literal(vals) == [kind |-> "Literal", args |-> vals, members |-> <<>>]

\* class X(Enum) with the members given, in definition order
EnumClass(mems) == [kind |-> "Enum", args |-> <<>>, members |-> mems]

\* typing.List[tp], typing.Optional[tp], typing.Dict[k, v]
ListOf(tp) == [kind |-> "List", args |-> <<TypeVal(tp)>>, members |-> <<>>]
OptionalOf(tp) ==
    [kind |-> "Optional", args |-> <<TypeVal(tp), TypeVal(NoneType)>>, members |-> <<>>]
DictOf(k, v) == [kind |-> "Dict", args |-> <<TypeVal(k), TypeVal(v)>>, members |-> <<>>]

MemberNames == <<"ONE", "TWO", "THREE", "FOUR">>

\* The members of an Enum class whose values, in definition order, are vals.
Members(vals) == [i \in 1..Len(vals) |-> [name |-> MemberNames[i], value |-> vals[i]]]

StrChoices == {StrVal("one"), StrVal("two"), StrVal("three"), StrVal("four")}
IntChoices == {IntVal("1"), IntVal("2")}

\* Literal[...] and Enum classes never hold a value twice: Literal drops
\* repeated arguments and a repeated Enum value is an alias, not a member.
ValueLists(S) == {s \in SeqsUpTo(S, MaxEnum) : s # <<>> /\ IsInjective(s)}

Classes == {str, int, float, bool, dict, list}

Generics ==
    {ListOf(tp) : tp \in {str, int}} \cup {OptionalOf(tp) : tp \in {str, int}}
        \cup {DictOf(k, v) : k \in {str}, v \in {str, int}}

AllTypes ==
    Classes \cup Generics
        \cup {Literal(vals) : vals \in ValueLists(StrChoices) \cup ValueLists(IntChoices)}
        \cup {EnumClass(Members(vals)) :
                 vals \in ValueLists(StrChoices) \cup ValueLists(IntChoices)}

(***************************************************************************)
(* GPTFunction._parse_param_type                                           *)
(***************************************************************************)
Ok(v) == [status |-> "ok", value |-> v]
Raised(e) == [status |-> e, value |-> <<>>]
NotCalled == [status |-> "not called", value |-> <<>>]

\* typing.get_args: the arguments of a subscripted typing construct, () otherwise
get_args(tp) == tp.args

\* isinstance(param_type, type) and issubclass(param_type, Enum)
IsEnumSubclass(tp) == tp.kind = "Enum"

\* [e.value for e in param_type]
EnumValues(tp) == [i \in 1..Len(tp.members) |-> tp.members[i].value]

\* _parse_param_type listing the permitted values last to first
ParseParamTypeReversed(param_type) ==
    IF param_type = str THEN Ok([type |-> "string"])
    ELSE IF param_type = int THEN Ok([type |-> "int"])
    ELSE IF param_type = float THEN Ok([type |-> "float"])
    ELSE IF get_args(param_type) # <<>>
        THEN Ok([type |-> "string", enum |-> Reverse(get_args(param_type))])
    ELSE IF IsEnumSubclass(param_type)
        THEN Ok([type |-> "string", enum |-> Reverse(EnumValues(param_type))])
    ELSE Raised("ValueError")

_parse_param_type(param_type) ==
    IF param_type = str THEN Ok([type |-> "string"])
    ELSE IF param_type = int THEN Ok([type |-> "int"])
    ELSE IF param_type = float THEN Ok([type |-> "float"])
    ELSE IF get_args(param_type) # <<>>
        THEN Ok([type |-> "string", enum |-> get_args(param_type)])
    ELSE IF IsEnumSubclass(param_type)
        THEN Ok([type |-> "string", enum |-> EnumValues(param_type)])
    ELSE Raised("ValueError")

(***************************************************************************)
(* Ordered dicts: Python dicts keep insertion order; assigning to a key    *)
(* that is present replaces its value in place.                            *)
(***************************************************************************)
Item(k, v) == [key |-> k, value |-> v]

DictHas(d, k) == \E i \in 1..Len(d) : d[i].key = k

DictGet(d, k) == d[CHOOSE i \in 1..Len(d) : d[i].key = k].value

DictSet(d, k, v) ==
    IF DictHas(d, k)
        THEN [i \in 1..Len(d) |-> IF d[i].key = k THEN Item(k, v) ELSE d[i]]
        ELSE Append(d, Item(k, v))

DictDel(d, k) == SelectSeq(d, LAMBDA e : e.key # k)

DictKeys(d) == [i \in 1..Len(d) |-> d[i].key]

\* d1 | d2 for two dicts whose key order is not observed
DictUnion(d1, d2) ==
    [k \in (DOMAIN d1) \cup (DOMAIN d2) |-> IF k \in DOMAIN d2 THEN d2[k] ELSE d1[k]]

(***************************************************************************)
(* GPTFunction._create_function_params                                     *)
(***************************************************************************)
\* GPTFunction._FunctionParam
_FunctionParam(name, typing, description) ==
    [name |-> name, typing |-> typing, description |-> description]

\* {p.arg_name: p for p in docstring_params}, entries 1..n taken
RECURSIVE KeyedDocstringParams(_, _)
KeyedDocstringParams(docstring_params, n) ==
    IF n = 0 THEN <<>>
    ELSE DictSet(KeyedDocstringParams(docstring_params, n - 1),
                 docstring_params[n].arg_name, docstring_params[n])

\* ParamLoop with an undocumented parameter skipped instead of recorded
RECURSIVE ParamLoopSkipUndocumented(_, _, _)
ParamLoopSkipUndocumented(annotations, keyed, n) ==
    IF n = 0 THEN [function_params |-> <<>>, log |-> <<>>]
    ELSE LET sofar == ParamLoopSkipUndocumented(annotations, keyed, n - 1)
             key == annotations[n].key
         IN  IF DictHas(keyed, key)
                 THEN [function_params |->
                           Append(sofar.function_params,
                                  _FunctionParam(key, DictGet(annotations, key),
                                                 DictGet(keyed, key).description)),
                       log |-> sofar.log]
                 ELSE [function_params |-> sofar.function_params,
                       log |-> Append(sofar.log, key)]

\* The body of "for key in annotations", keys 1..n taken: the records
\* appended and the warnings logged so far.
RECURSIVE ParamLoop(_, _, _)
ParamLoop(annotations, keyed, n) ==
    IF n = 0 THEN [function_params |-> <<>>, log |-> <<>>]
    ELSE LET sofar == ParamLoop(annotations, keyed, n - 1)
             key == annotations[n].key
             documented == DictHas(keyed, key)
             desc == IF documented THEN DictGet(keyed, key).description ELSE ""
         IN  [function_params |->
                  Append(sofar.function_params,
                         _FunctionParam(key, DictGet(annotations, key), desc)),
              log |-> IF documented THEN sofar.log ELSE Append(sofar.log, key)]

\* _create_function_params walking the documented names first, in
\* docstring order, then the undocumented ones
CreateFunctionParamsDocOrder(annotations, docstring_params) ==
    LET stripped == IF DictHas(annotations, "return")
                        THEN DictDel(annotations, "return")
                        ELSE annotations
        keyed == KeyedDocstringParams(docstring_params, Len(docstring_params))
        keys == SelectSeq(DictKeys(keyed), LAMBDA k : DictHas(stripped, k))
                    \o SelectSeq(DictKeys(stripped), LAMBDA k : ~DictHas(keyed, k))
        walked == [i \in 1..Len(keys) |-> Item(keys[i], DictGet(stripped, keys[i]))]
        loop == ParamLoop(walked, keyed, Len(walked))
    IN  [annotations |-> stripped,
         function_params |-> loop.function_params,
         log |-> loop.log]

\* _create_function_params with the "return" entry left in place
CreateFunctionParamsKeepReturn(annotations, docstring_params) ==
    LET keyed == KeyedDocstringParams(docstring_params, Len(docstring_params))
        loop == ParamLoop(annotations, keyed, Len(annotations))
    IN  [annotations |-> annotations,
         function_params |-> loop.function_params,
         log |-> loop.log]

\* _create_function_params dropping the last entry (annotations.popitem())
\* in place of the entry named "return"
CreateFunctionParamsPopItem(annotations, docstring_params) ==
    LET stripped == IF annotations # <<>>
                        THEN SubSeq(annotations, 1, Len(annotations) - 1)
                        ELSE annotations
        keyed == KeyedDocstringParams(docstring_params, Len(docstring_params))
        loop == ParamLoop(stripped, keyed, Len(stripped))
    IN  [annotations |-> stripped,
         function_params |-> loop.function_params,
         log |-> loop.log]

\* The annotations dict is the caller's own object: the deletion of its
\* "return" entry is returned as .annotations, the list built as
\* .function_params, the warnings logged as .log.
_create_function_params(annotations, docstring_params) ==
    LET stripped == IF DictHas(annotations, "return")
                        THEN DictDel(annotations, "return")
                        ELSE annotations
        keyed == KeyedDocstringParams(docstring_params, Len(docstring_params))
        loop == ParamLoop(stripped, keyed, Len(stripped))
    IN  [annotations |-> stripped,
         function_params |-> loop.function_params,
         log |-> loop.log]

(***************************************************************************)
(* GPTFunction._parse_params                                               *)
(***************************************************************************)
\* The body of "for param in params", params 1..n taken; an exception of
\* _parse_param_type leaves the loop.
RECURSIVE SchemaParams(_, _)
SchemaParams(params, n) ==
    IF n = 0 THEN Ok(<<>>)
    ELSE LET sofar == SchemaParams(params, n - 1)
             frag == _parse_param_type(params[n].typing)
         IN  IF sofar.status # "ok" THEN sofar
             ELSE IF frag.status # "ok" THEN Raised(frag.status)
             ELSE Ok(DictSet(sofar.value, params[n].name,
                             DictUnion(frag.value,
                                       [description |-> params[n].description])))

\* _parse_params with the description left out of each property
ParseParamsNoDescription(params) ==
    Ok([type |-> "object",
        properties |->
            [i \in 1..Len(params) |->
                Item(params[i].name, _parse_param_type(params[i].typing).value)]])

_parse_params(params) ==
    LET schema_params == SchemaParams(params, Len(params))
    IN  IF schema_params.status # "ok" THEN schema_params
        ELSE Ok([type |-> "object", properties |-> schema_params.value])

(***************************************************************************)
(* GPTFunction.schema, name, description                                   *)
(***************************************************************************)
\* .func is the callable after the call, .out the descriptor or the
\* exception, .params the parameter records built, .log the warnings logged.
schema(f) ==
    LET created == _create_function_params(f.annotations, f.doc.params)
        parameters == _parse_params(created.function_params)
    IN  [func |-> [f EXCEPT !.annotations = created.annotations],
         log |-> created.log,
         params |-> created.function_params,
         out |-> IF parameters.status # "ok" THEN parameters
                 ELSE Ok([type |-> "function",
                          function |->
                              [name |-> f.name,
                               description |-> f.doc.short_description,
                               parameters |-> parameters.value]])]

name(f) == f.name

description(f) == f.doc.short_description

(***************************************************************************)
(* GPTFunction.__call__                                                    *)
(***************************************************************************)
StrObj(chars) == [t |-> "str", s |-> chars, n |-> 0]
IntObj(k) == [t |-> "int", s |-> <<>>, n |-> k]
None == [t |-> "NoneType", s |-> <<>>, n |-> 0]
True == [t |-> "bool", s |-> <<>>, n |-> 1]
False == [t |-> "bool", s |-> <<>>, n |-> 0]

DigitChars == <<"0", "1", "2", "3", "4", "5", "6", "7", "8", "9">>

RECURSIVE Digits(_)
Digits(k) ==
    IF k < 10 THEN <<DigitChars[k + 1]>>
    ELSE Digits(k \div 10) \o <<DigitChars[(k % 10) + 1]>>

\* str(value), as characters
PyStr(value) ==
    CASE value.t = "str" -> value.s
      [] value.t = "int" ->
            IF value.n < 0 THEN <<"-">> \o Digits(-value.n) ELSE Digits(value.n)
      [] value.t = "bool" ->
            IF value.n = 1 THEN <<"T", "r", "u", "e">> ELSE <<"F", "a", "l", "s", "e">>
      [] value.t = "NoneType" -> <<"N", "o", "n", "e">>

\* getattr(result, "__str__"): every object, None included, inherits
\* object.__str__, and a bound method is truthy.
HasStrMethod(result) == result.t \in {"str", "int", "bool", "NoneType"}

\* self.func(*args, **kwargs): the wrapped callable with the body given
\* "return": returns body.value; "echo": returns its first positional
\* argument (None without one); "raise": raises.
Apply(body, args, kwargs) ==
    [args |-> args,
     kwargs |-> kwargs,
     status |-> IF body.kind = "raise" THEN "RuntimeError" ELSE "ok",
     result |-> IF body.kind = "return" THEN body.value
                ELSE IF body.kind = "echo" /\ Len(args) > 0 THEN args[1]
                ELSE None]

\* __call__ handing the callable's result back as it is
CallUncoerced(body, args, kwargs) ==
    LET ran == Apply(body, args, kwargs)
    IN  [seen |-> [args |-> ran.args, kwargs |-> ran.kwargs, result |-> ran.result],
         out |-> IF ran.status # "ok" THEN Raised(ran.status) ELSE Ok(ran.result)]

\* .seen is what the wrapped callable received and returned, .out the value
\* the adapter returned or the exception that left the call.
__call__(body, args, kwargs) ==
    LET ran == Apply(body, args, kwargs)
        result == ran.result
    IN  [seen |-> [args |-> ran.args, kwargs |-> ran.kwargs, result |-> ran.result],
         out |-> IF ran.status # "ok" THEN Raised(ran.status)
                 ELSE IF result.t = "str" THEN Ok(result)
                 ELSE IF HasStrMethod(result) THEN Ok(StrObj(PyStr(result)))
                 ELSE Ok(StrObj(<<>>))]

(***************************************************************************)
(* The wrapped callable.                                                   *)
(***************************************************************************)
\* the marker of a parameter or return declared without an annotation
NoAnnotation == [kind |-> "", args |-> <<>>, members |-> <<>>]

ParamNames == {"a", "b", "c"}
DocNames == {"a", "b"}

Fruit == EnumClass(Members(<<StrVal("orange"), StrVal("apple")>>))

ParamTypes == {int, str, Fruit, bool}

DocTexts ==
    <<"A param", "b description\nspans multiple lines.", "C param", "D param">>

Signatures ==
    {ps \in SeqsUpTo([name : ParamNames, ann : ParamTypes \cup {NoAnnotation}], MaxParams) :
        \A i, j \in 1..Len(ps) : ps[i].name = ps[j].name => i = j}

\* docstring_parser's params for a docstring whose i-th ":param" line
\* documents names[i]
DocParams(names) ==
    [i \in 1..Len(names) |-> [arg_name |-> names[i], description |-> DocTexts[i]]]

\* func.__annotations__ as the def statement builds it: the annotated
\* parameters in declaration order, then "return" when one is declared.
Annotations(d) ==
    LET annotated == SelectSeq(d.params, LAMBDA p : p.ann # NoAnnotation)
        ps == [i \in 1..Len(annotated) |-> Item(annotated[i].name, annotated[i].ann)]
    IN  IF d.returns = NoAnnotation THEN ps ELSE Append(ps, Item("return", d.returns))

\* GPTFunction.__init__ on the callable declared as d
Wrap(d) ==
    [name |-> d.name,
     doc |-> [short_description |-> d.short_description, params |-> d.doc_params],
     annotations |-> Annotations(d)]

Declarations ==
    {[name |-> "f", short_description |-> "Does X", params |-> ps, returns |-> r,
      doc_params |-> DocParams(ns)] :
        ps \in Signatures, r \in {NoAnnotation, int}, ns \in SeqsUpTo(DocNames, MaxDocs)}

\* test_decorator_on_func's my_func(a: int, b: str) -> int
my_func ==
    [name |-> "my_func", short_description |-> "This is my func.",
     params |-> <<[name |-> "a", ann |-> int], [name |-> "b", ann |-> str]>>,
     returns |-> int,
     doc_params |-> <<[arg_name |-> "a", description |-> "this is a."],
                      [arg_name |-> "b", description |-> "this is b."]>>]

(***************************************************************************)
(* Operations on one adapter.                                              *)
(***************************************************************************)
NoText == "<no value>"
NoCall == [args |-> <<>>, kwargs |-> <<>>, body |-> [kind |-> "none", value |-> None]]
NoSeen == [args |-> <<>>, kwargs |-> <<>>, result |-> None]

Idle ==
    /\ last = "init"
    /\ schema_out = NotCalled
    /\ records = <<>>
    /\ first_schema = NotCalled
    /\ repeated = FALSE
    /\ text_out = NoText
    /\ warnings = <<>>
    /\ call_in = NoCall
    /\ call_seen = NoSeen
    /\ call_out = NotCalled
    /\ tm_in = NoAnnotation
    /\ tm_out = NotCalled

Init ==
    /\ decl \in Declarations
    /\ func = Wrap(decl)
    /\ Idle

Schema ==
    LET r == schema(func)
    IN  /\ last' = "schema"
        /\ func' = r.func
        /\ schema_out' = r.out
        /\ records' = r.params
        /\ first_schema' = IF first_schema = NotCalled THEN r.out ELSE first_schema
        /\ repeated' = (first_schema # NotCalled)
        /\ warnings' = r.log
        /\ text_out' = NoText
        /\ call_in' = NoCall
        /\ call_seen' = NoSeen
        /\ call_out' = NotCalled
        /\ UNCHANGED <<decl, tm_in, tm_out>>

Name ==
    /\ last' = "name"
    /\ text_out' = name(func)
    /\ schema_out' = NotCalled
    /\ records' = <<>>
    /\ warnings' = <<>>
    /\ call_in' = NoCall
    /\ call_seen' = NoSeen
    /\ call_out' = NotCalled
    /\ UNCHANGED <<decl, func, first_schema, repeated, tm_in, tm_out>>

Description ==
    /\ last' = "description"
    /\ text_out' = description(func)
    /\ schema_out' = NotCalled
    /\ records' = <<>>
    /\ warnings' = <<>>
    /\ call_in' = NoCall
    /\ call_seen' = NoSeen
    /\ call_out' = NotCalled
    /\ UNCHANGED <<decl, func, first_schema, repeated, tm_in, tm_out>>

Invoke(body, args, kwargs) ==
    LET r == __call__(body, args, kwargs)
    IN  /\ last' = "call"
        /\ call_in' = [args |-> args, kwargs |-> kwargs, body |-> body]
        /\ call_seen' = r.seen
        /\ call_out' = r.out
        /\ schema_out' = NotCalled
        /\ records' = <<>>
        /\ text_out' = NoText
        /\ warnings' = <<>>
        /\ UNCHANGED <<decl, func, first_schema, repeated, tm_in, tm_out>>

\* test_decorator_on_func: my_func(1, "r") with a body that returns 5
Call == Invoke([kind |-> "return", value |-> IntObj(5)], <<IntObj(1), StrObj(<<"r">>)>>, <<>>)

Next == Schema \/ Name \/ Description \/ Call

Spec == Init /\ [][Next]_vars

(***************************************************************************)
(* The adapter invoked, over the results a callable can give.              *)
(***************************************************************************)
Results ==
    {StrObj(<<>>), StrObj(<<"o", "k">>), StrObj(<<"5">>), None, True, False}
        \cup {IntObj(k) : k \in (-MaxInt)..MaxInt}

Bodies ==
    {[kind |-> "return", value |-> v] : v \in Results}
        \cup {[kind |-> "echo", value |-> None], [kind |-> "raise", value |-> None]}

ArgValues == {IntObj(1), StrObj(<<"r">>)}

KwArgs == {<<>>, <<Item("b", StrObj(<<"r">>))>>}

InitCall ==
    /\ decl = my_func
    /\ func = Wrap(decl)
    /\ Idle

NextCall ==
    \E body \in Bodies, args \in SeqsUpTo(ArgValues, MaxArgs), kwargs \in KwArgs :
        Invoke(body, args, kwargs)

SpecCall == InitCall /\ [][NextCall]_vars

(***************************************************************************)
(* _parse_param_type called on its own, over the types a parameter can be  *)
(* declared with.                                                          *)
(***************************************************************************)
InitTypes ==
    /\ decl = my_func
    /\ func = Wrap(decl)
    /\ last = "init"
    /\ schema_out = NotCalled
    /\ records = <<>>
    /\ first_schema = NotCalled
    /\ repeated = FALSE
    /\ text_out = NoText
    /\ warnings = <<>>
    /\ call_in = NoCall
    /\ call_seen = NoSeen
    /\ call_out = NotCalled
    /\ tm_in \in AllTypes
    /\ tm_out = NotCalled

ParseParamType ==
    /\ tm_out = NotCalled
    /\ last' = "_parse_param_type"
    /\ tm_out' = _parse_param_type(tm_in)
    /\ UNCHANGED <<decl, func, schema_out, records, first_schema, repeated, text_out,
                   warnings, call_in, call_seen, call_out, tm_in>>

NextTypes == ParseParamType

SpecTypes == InitTypes /\ [][NextTypes]_vars

(***************************************************************************)
(* Vocabulary of the properties.                                           *)
(***************************************************************************)
\* the declared parameters that carry an annotation, in declaration order
Annotated == SelectSeq(decl.params, LAMBDA p : p.ann # NoAnnotation)

DeclaredOrder == [i \in 1..Len(Annotated) |-> Annotated[i].name]

\* a closed literal set of strings, or an enumeration whose values are strings
IsEnumeratedString(tp) ==
    \/ /\ tp.kind = "Literal"
       /\ tp.args # <<>>
       /\ \A i \in 1..Len(tp.args) : tp.args[i].t = "str"
    \/ /\ tp.kind = "Enum"
       /\ tp.members # <<>>
       /\ \A i \in 1..Len(tp.members) : tp.members[i].value.t = "str"

Supported(tp) == tp \in {str, int, float} \/ IsEnumeratedString(tp)

AllSupported == \A i \in 1..Len(Annotated) : Supported(Annotated[i].ann)

DocEntries(nm) == {i \in 1..Len(decl.doc_params) : decl.doc_params[i].arg_name = nm}

\* the text documenting nm: that of its entry (of the last one, should the
\* docstring document nm more than once), "" without one
DocText(nm) ==
    IF DocEntries(nm) = {} THEN ""
    ELSE decl.doc_params[CHOOSE i \in DocEntries(nm) : \A j \in DocEntries(nm) : j <= i].description

RecordNames == [i \in 1..Len(records) |-> records[i].name]

DigitValue(c) == CHOOSE d \in 0..9 : DigitChars[d + 1] = c

RECURSIVE ParseDigits(_)
ParseDigits(chars) ==
    IF Len(chars) = 1 THEN DigitValue(chars[1])
    ELSE 10 * ParseDigits(SubSeq(chars, 1, Len(chars) - 1)) + DigitValue(chars[Len(chars)])

\* the integer a decimal numeral denotes
ParseInt(chars) ==
    IF chars[1] = "-" THEN -ParseDigits(Tail(chars)) ELSE ParseDigits(chars)

(***************************************************************************)
(* C1. For a callable whose annotated parameters all have supported types, *)
(* schema() returns exactly {type: "function", function: {name,            *)
(* description, parameters: {type: "object", properties: P}}}: name is the *)
(* callable's identifier, description its short description, and P holds,  *)
(* per annotated parameter, its name mapped to the Type Mapper fragment of *)
(* its type united with {description: its description}; a callable with no *)
(* parameters yields parameters = {type: "object", properties: {}}.        *)
(***************************************************************************)
ExpectedProperties ==
    [i \in 1..Len(Annotated) |->
        Item(Annotated[i].name,
             DictUnion(_parse_param_type(Annotated[i].ann).value,
                       [description |-> DocText(Annotated[i].name)]))]

C1_SchemaDescriptor ==
    (last = "schema" /\ AllSupported) =>
        /\ schema_out =
               Ok([type |-> "function",
                   function |->
                       [name |-> decl.name,
                        description |-> decl.short_description,
                        parameters |->
                            [type |-> "object", properties |-> ExpectedProperties]]])
        /\ decl.params = <<>> =>
               schema_out.value.function.parameters =
                   [type |-> "object", properties |-> <<>>]

C1_Witness ==
    /\ last = "schema"
    /\ AllSupported
    /\ schema_out.status = "ok"
    /\ Len(schema_out.value.function.parameters.properties) = 2
    /\ \E i \in 1..2 :
           "enum" \in DOMAIN schema_out.value.function.parameters.properties[i].value

(***************************************************************************)
(* C2. _parse_param_type maps str to {type: "string"}, int to              *)
(* {type: "int"}, float to {type: "float"}, and an enumerated-string type  *)
(* (a Literal of strings, an Enum with string values) to                   *)
(* {type: "string", enum: V}, V the permitted values in declared order,    *)
(* none dropped, added or reordered.                                       *)
(***************************************************************************)
DeclaredValue(tp, i) == IF tp.kind = "Literal" THEN tp.args[i] ELSE tp.members[i].value

DeclaredCount(tp) == IF tp.kind = "Literal" THEN Len(tp.args) ELSE Len(tp.members)

C2_TypeMapperTable ==
    tm_out # NotCalled =>
        /\ tm_in = str => tm_out = Ok([type |-> "string"])
        /\ tm_in = int => tm_out = Ok([type |-> "int"])
        /\ tm_in = float => tm_out = Ok([type |-> "float"])
        /\ IsEnumeratedString(tm_in) =>
               /\ tm_out.status = "ok"
               /\ DOMAIN tm_out.value = {"type", "enum"}
               /\ tm_out.value.type = "string"
               /\ Len(tm_out.value.enum) = DeclaredCount(tm_in)
               /\ \A i \in 1..DeclaredCount(tm_in) :
                      tm_out.value.enum[i] = DeclaredValue(tm_in, i)

C2_Witness ==
    /\ tm_in.kind = "Enum"
    /\ IsEnumeratedString(tm_in)
    /\ Len(tm_in.members) = 2
    /\ tm_out.status = "ok"
    /\ tm_out.value.enum # Reverse(tm_out.value.enum)

(***************************************************************************)
(* C3. For every declared type outside {str, int, float,                   *)
(* enumerated-string}, _parse_param_type fails with the unsupported-type   *)
(* error and returns no fragment.                                          *)
(***************************************************************************)
C3_UnsupportedTypeRaises ==
    (tm_out # NotCalled /\ ~Supported(tm_in)) => tm_out.status = "ValueError"

(***************************************************************************)
(* C4. Whatever the order of the docstring's parameter entries, the        *)
(* parameter records schema() builds, and the keys of properties in the    *)
(* descriptor, are in the declaration order of the annotated parameters.   *)
(***************************************************************************)
C4_DeclarationOrder ==
    last = "schema" =>
        /\ RecordNames = DeclaredOrder
        /\ schema_out.status = "ok" =>
               DictKeys(schema_out.value.function.parameters.properties) = DeclaredOrder

C4_Witness ==
    /\ last = "schema"
    /\ schema_out.status = "ok"
    /\ DeclaredOrder = <<"a", "b">>
    /\ DictKeys(schema_out.value.function.parameters.properties) = <<"a", "b">>
    /\ Len(decl.doc_params) = 2
    /\ decl.doc_params[1].arg_name = "b"
    /\ decl.doc_params[2].arg_name = "a"

(***************************************************************************)
(* C5. The extractor returns exactly one record per annotation entry other *)
(* than the return entry: none for the return annotation, none for a       *)
(* parameter declared without annotation, none for a docstring entry whose *)
(* name is no annotated parameter.                                         *)
(***************************************************************************)
C5_OneRecordPerAnnotatedParam ==
    last = "schema" =>
        /\ Len(records) = Len(Annotated)
        /\ \A i \in 1..Len(Annotated) :
               Cardinality({j \in 1..Len(records) : records[j].name = Annotated[i].name}) = 1
        /\ \A j \in 1..Len(records) :
               /\ records[j].name # "return"
               /\ \E i \in 1..Len(decl.params) :
                      /\ decl.params[i].name = records[j].name
                      /\ decl.params[i].ann # NoAnnotation
                      /\ decl.params[i].ann = records[j].typing

C5_Witness ==
    /\ last = "schema"
    /\ decl.returns # NoAnnotation
    /\ Len(decl.params) = 2
    /\ Len(records) = 1
    /\ \E i \in 1..Len(decl.doc_params) :
           \A j \in 1..Len(records) : records[j].name # decl.doc_params[i].arg_name

(***************************************************************************)
(* C6. An annotated parameter without a docstring entry of its name still  *)
(* gets its record, with description "", a warning is logged for it, and   *)
(* generation goes on; an annotated parameter with an entry gets that      *)
(* entry's description.                                                    *)
(***************************************************************************)
C6_UndocumentedParameter ==
    last = "schema" =>
        /\ \A i \in 1..Len(Annotated) :
               \E j \in 1..Len(records) :
                   /\ records[j].name = Annotated[i].name
                   /\ records[j].description = DocText(Annotated[i].name)
                   /\ DocEntries(Annotated[i].name) = {} =>
                          /\ records[j].description = ""
                          /\ \E k \in 1..Len(warnings) : warnings[k] = Annotated[i].name
        /\ AllSupported => schema_out.status = "ok"

C6_Witness ==
    /\ last = "schema"
    /\ schema_out.status = "ok"
    /\ Len(records) = 2
    /\ records[1].description = ""
    /\ records[2].description = "A param"
    /\ warnings = <<records[1].name>>

(***************************************************************************)
(* C7. Invoking the adapter forwards all arguments to the wrapped callable *)
(* and returns a str: a str result unchanged, a non-str result as its      *)
(* textual representation (5 gives "5").                                   *)
(***************************************************************************)
C7_CallReturnsString ==
    (last = "call" /\ call_out.status = "ok") =>
        /\ call_seen.args = call_in.args
        /\ call_seen.kwargs = call_in.kwargs
        /\ call_out.value.t = "str"
        /\ call_seen.result.t = "str" => call_out.value = call_seen.result
        /\ call_seen.result.t = "int" => ParseInt(call_out.value.s) = call_seen.result.n
        /\ call_seen.result = IntObj(5) => call_out.value.s = <<"5">>

C7_Witness ==
    /\ last = "call"
    /\ Len(call_in.args) = 2
    /\ call_seen.args = call_in.args
    /\ call_seen.result = IntObj(5)
    /\ call_out = Ok(StrObj(<<"5">>))

(***************************************************************************)
(* C8. Invoking the adapter on a callable that returns None yields the     *)
(* empty string.                                                           *)
(***************************************************************************)
C8_NoneYieldsEmptyString ==
    (last = "call" /\ call_out.status = "ok" /\ call_seen.result = None) =>
        call_out.value = StrObj(<<>>)

(***************************************************************************)
(* C9. No adapter operation mutates the wrapped callable: after schema(),  *)
(* name(), description() or an invocation, the callable's annotation       *)
(* mapping, its return entry included, is what it was at construction.     *)
(***************************************************************************)
C9_CallableUntouched == func = Wrap(decl)

(***************************************************************************)
(* C10. Every schema() call on an adapter has the outcome of the first     *)
(* one, an equal descriptor or the same failure, whatever schema(),        *)
(* name(), description() calls and invocations came in between.            *)
(***************************************************************************)
C10_SchemaRepeatable == last = "schema" => schema_out = first_schema

C10_Witness ==
    /\ last = "schema"
    /\ repeated
    /\ func # Wrap(decl)
    /\ Len(Annotated) = 2
    /\ schema_out = first_schema

====
